---- MODULE Spec2Model ----
(***************************************************************************)
(* Model of gilrs' event filters (src/src/ev/filter.rs): Jitter, deadzone, *)
(* axis_dpad_to_button and Repeat, the filter_ev chaining protocol, and    *)
(* the event loop of the module documentation that feeds raw events        *)
(* through a chain and lets the consumer update the gamepad state.         *)
(*                                                                         *)
(* Numbers: an f32 axis value or threshold is modelled as an integer       *)
(* number of 1/Scale units (0.375 is 375); every f32 operation that rounds *)
(* is modelled by rounding to that grid.  Instants and durations are       *)
(* integer milliseconds.                                                   *)
(***************************************************************************)
EXTENDS Integers, Sequences, FiniteSets

VARIABLES
    axes,       \* [id -> [native axis code -> NoAxis or [value, time]]]
    buttons,    \* [id -> [native button code -> NoBtn or [pressed, repeating, time]]]
    deadzones,  \* [id -> [native axis code -> threshold or NoDeadzone]]
    mapping,    \* [id -> [native button code -> logical Button]]
    now,        \* SystemTime::now()
    jitter,     \* the Jitter filter (its public field threshold)
    repeat,     \* the Repeat filter (its public fields after, every)
    inp,        \* the optional event handed to the last filter call
    out,        \* the optional event the chain holds (result of the last call)
    last,       \* which filter the last call applied ("none" before any)
    ret,        \* what the filter of the last call returned to filter_ev
    pc,         \* "idle" | "chain" | "panicked" | "assert_failed"
    chain,      \* number of filters applied to the current event
    steps,      \* number of loop iterations so far
    normalized, \* ghost: the <<id, axis code>> whose stored value deadzone emitted
    hold        \* ghost: [id -> [native button code -> when the button was pressed
                \*         and how many repeats the consumer applied since]]

vars == <<axes, buttons, deadzones, mapping, now, jitter, repeat, inp, out, last,
          ret, pc, chain, steps, normalized, hold>>

-----------------------------------------------------------------------------
(* Bounds of the model *)

(* filters applied to one event *)
MaxChain == 2
(* loop iterations of each specification *)
JitterSteps == 2
DeadzoneSteps == 2
DpadSteps == 3
RepeatSteps == 3
ChainSteps == 2

(* f32 grid: 1.0 is Scale units *)
Scale == 1000

-----------------------------------------------------------------------------
(* platform::native_ev_codes and the gamepad module's names *)

BTN_SOUTH == 304
BTN_DPAD_UP == 544
BTN_DPAD_DOWN == 545
BTN_DPAD_LEFT == 546
BTN_DPAD_RIGHT == 547
BTN_EXTRA == 704

AXIS_LSTICKX == 0
AXIS_LSTICKY == 1
AXIS_LEFTZ == 2
AXIS_RSTICKX == 3
AXIS_RSTICKY == 4
AXIS_DPADX == 16
AXIS_DPADY == 17
AXIS_MISSING == 40

BtnCodes == {BTN_SOUTH, BTN_DPAD_UP, BTN_DPAD_DOWN, BTN_DPAD_LEFT,
             BTN_DPAD_RIGHT, BTN_EXTRA}
AxisCodes == {AXIS_LSTICKX, AXIS_LSTICKY, AXIS_LEFTZ, AXIS_RSTICKX,
              AXIS_RSTICKY, AXIS_DPADX, AXIS_DPADY, AXIS_MISSING}

Button == {"South", "DPadUp", "DPadDown", "DPadLeft", "DPadRight", "Unknown"}
Axis == {"LeftStickX", "LeftStickY", "LeftZ", "RightStickX", "RightStickY",
         "DPadX", "DPadY", "Unknown"}

Ids == {0, 1}
USIZE_MAX == 99

NoAxis == [value |-> 0, time |-> -1, known |-> FALSE]
NoBtn == [pressed |-> FALSE, repeating |-> FALSE, time |-> -1, known |-> FALSE]
NoDeadzone == -1

(* Gamepad::axis_code: the native code of a logical axis *)
axis_code(axis) ==
    CASE axis = "LeftStickX" -> AXIS_LSTICKX
      [] axis = "LeftStickY" -> AXIS_LSTICKY
      [] axis = "LeftZ" -> AXIS_LEFTZ
      [] axis = "RightStickX" -> AXIS_RSTICKX
      [] axis = "RightStickY" -> AXIS_RSTICKY
      [] axis = "DPadX" -> AXIS_DPADX
      [] axis = "DPadY" -> AXIS_DPADY
      [] OTHER -> AXIS_MISSING

-----------------------------------------------------------------------------
(* Event and Option<Event> *)

None == [kind |-> "None", id |-> 0, time |-> 0, name |-> "-", val |-> 0, nec |-> 0]

is_some(e) == e.kind # "None"
is_none(e) == e.kind = "None"

ButtonPressed(id, time, btn, nec) ==
    [kind |-> "ButtonPressed", id |-> id, time |-> time, name |-> btn, val |-> 0, nec |-> nec]
ButtonReleased(id, time, btn, nec) ==
    [kind |-> "ButtonReleased", id |-> id, time |-> time, name |-> btn, val |-> 0, nec |-> nec]
ButtonRepeated(id, time, btn, nec) ==
    [kind |-> "ButtonRepeated", id |-> id, time |-> time, name |-> btn, val |-> 0, nec |-> nec]
AxisChanged(id, time, axis, val, nec) ==
    [kind |-> "AxisChanged", id |-> id, time |-> time, name |-> axis, val |-> val, nec |-> nec]
Connected(id, time) ==
    [kind |-> "Connected", id |-> id, time |-> time, name |-> "-", val |-> 0, nec |-> 0]
Disconnected(id, time) ==
    [kind |-> "Disconnected", id |-> id, time |-> time, name |-> "-", val |-> 0, nec |-> 0]

(* Event::dropped(): no device, stamped with the clock *)
Dropped ==
    [kind |-> "Dropped", id |-> USIZE_MAX, time |-> now, name |-> "-", val |-> 0, nec |-> 0]

-----------------------------------------------------------------------------
(* Read accessors of Gilrs / Gamepad / GamepadState used by the filters *)

axis_data(id, nec) == axes[id][nec]
state_value(id, nec) == IF axes[id][nec].known THEN axes[id][nec].value ELSE 0
gp_value(id, axis) == state_value(id, axis_code(axis))
gp_deadzone(id, nec) == deadzones[id][nec]
button_name(id, nec) == IF nec \in BtnCodes THEN mapping[id][nec] ELSE "Unknown"
button_code_is_none(id, btn) == \A nec \in BtnCodes : mapping[id][nec] # btn
is_pressed(id, nec) == buttons[id][nec].known /\ buttons[id][nec].pressed

-----------------------------------------------------------------------------
(* f32 arithmetic on the grid *)

Abs(x) == IF x < 0 THEN -x ELSE x

(* a / b rounded to the nearest integer, b > 0 *)
RDiv(a, b) == IF a >= 0 THEN (2 * a + b) \div (2 * b) ELSE -((2 * (-a) + b) \div (2 * b))

FMul(a, b) == RDiv(a * b, Scale)
FDiv(a, b) == RDiv(a * Scale, b)

RECURSIVE ISqrt(_, _, _)
(* the largest r in lo..hi with r * r <= n *)
ISqrt(n, lo, hi) ==
    IF lo >= hi THEN lo
    ELSE LET mid == (lo + hi + 1) \div 2
         IN IF mid * mid <= n THEN ISqrt(n, mid, hi) ELSE ISqrt(n, lo, mid - 1)

(* sqrt of n (in 1/Scale^2 units) rounded to the grid *)
FSqrt(n) ==
    LET r == ISqrt(n, 0, 2 * Scale)
    IN IF n - r * r > r THEN r + 1 ELSE r

-----------------------------------------------------------------------------
(* Jitter *)

Jitter_new == [threshold |-> Scale \div 100]

(* Jitter answering None where it should answer Dropped *)
Jitter_filter_dropping_none(ev) ==
    IF ev.kind = "AxisChanged"
    THEN IF axis_data(ev.id, ev.nec).known
            /\ Abs(ev.val - axis_data(ev.id, ev.nec).value) < jitter.threshold
         THEN None
         ELSE ev
    ELSE ev

(* Jitter dropping a change equal to the threshold as well *)
Jitter_filter_le(ev) ==
    IF ev.kind = "AxisChanged"
    THEN IF axis_data(ev.id, ev.nec).known
            /\ Abs(ev.val - axis_data(ev.id, ev.nec).value) <= jitter.threshold
         THEN Dropped
         ELSE ev
    ELSE ev

(* Jitter dropping changes of up to twice the threshold *)
Jitter_filter_twice_threshold(ev) ==
    IF ev.kind = "AxisChanged"
    THEN IF axis_data(ev.id, ev.nec).known
            /\ Abs(ev.val - axis_data(ev.id, ev.nec).value) < 2 * jitter.threshold
         THEN Dropped
         ELSE ev
    ELSE ev

(* impl FilterFn for Jitter *)
Jitter_filter(ev) ==
    IF ev.kind = "AxisChanged"
    THEN IF axis_data(ev.id, ev.nec).known
            /\ Abs(ev.val - axis_data(ev.id, ev.nec).value) < jitter.threshold
         THEN Dropped
         ELSE ev
    ELSE ev

-----------------------------------------------------------------------------
(* deadzone *)

(* the outcome of a call that panicked instead of returning *)
Panic == [kind |-> "Panic", id |-> 0, time |-> 0, name |-> "-", val |-> 0, nec |-> 0]

(* apply_deadzone without the division by 1 - threshold *)
apply_deadzone_no_rescale(x, y, threshold) ==
    LET magnitude == FSqrt(x * x + y * y)
    IN IF magnitude <= threshold
       THEN <<0, 0>>
       ELSE LET norm == FDiv(magnitude - threshold, magnitude)
            IN <<FMul(x, norm), FMul(y, norm)>>

(* apply_deadzone: the pair (x, y) pulled towards the origin *)
apply_deadzone(x, y, threshold) ==
    LET magnitude == FSqrt(x * x + y * y)
    IN IF magnitude <= threshold
       THEN <<0, 0>>
       ELSE LET norm == FDiv(FDiv(magnitude - threshold, Scale - threshold), magnitude)
            IN <<FMul(x, norm), FMul(y, norm)>>

(* the first component of apply_deadzone on the event's value and its paired value *)
deadzone_val(ev, threshold) ==
    (CASE ev.name = "LeftStickY" -> apply_deadzone(ev.val, gp_value(ev.id, "LeftStickX"), threshold)
       [] ev.name = "LeftStickX" -> apply_deadzone(ev.val, gp_value(ev.id, "LeftStickY"), threshold)
       [] ev.name = "RightStickY" -> apply_deadzone(ev.val, gp_value(ev.id, "RightStickX"), threshold)
       [] ev.name = "RightStickX" -> apply_deadzone(ev.val, gp_value(ev.id, "RightStickY"), threshold)
       [] OTHER -> apply_deadzone(ev.val, 0, threshold))[1]

(* deadzone without the comparison with the stored value *)
deadzone_never_drops(ev) ==
    IF ev.kind = "AxisChanged"
    THEN LET threshold == gp_deadzone(ev.id, ev.nec)
         IN IF threshold = NoDeadzone
            THEN Panic
            ELSE AxisChanged(ev.id, ev.time, ev.name, deadzone_val(ev, threshold), ev.nec)
    ELSE ev

(* deadzone dropping whatever falls inside the dead zone, and nothing else *)
deadzone_drops_in_zone(ev) ==
    IF ev.kind = "AxisChanged"
    THEN LET threshold == gp_deadzone(ev.id, ev.nec)
         IN IF threshold = NoDeadzone
            THEN Panic
            ELSE LET val == deadzone_val(ev, threshold)
                 IN IF val = 0
                    THEN Dropped
                    ELSE AxisChanged(ev.id, ev.time, ev.name, val, ev.nec)
    ELSE ev

(* deadzone letting through the event of an axis without a deadzone *)
deadzone_unknown_passes(ev) ==
    IF ev.kind = "AxisChanged"
    THEN LET threshold == gp_deadzone(ev.id, ev.nec)
         IN IF threshold = NoDeadzone
            THEN ev
            ELSE LET val == deadzone_val(ev, threshold)
                 IN IF state_value(ev.id, ev.nec) = val
                    THEN Dropped
                    ELSE AxisChanged(ev.id, ev.time, ev.name, val, ev.nec)
    ELSE ev

(* deadzone: Panic stands for the failed expect *)
deadzone(ev) ==
    IF ev.kind = "AxisChanged"
    THEN LET threshold == gp_deadzone(ev.id, ev.nec)
         IN IF threshold = NoDeadzone
            THEN Panic
            ELSE LET val == deadzone_val(ev, threshold)
                 IN IF state_value(ev.id, ev.nec) = val
                    THEN Dropped
                    ELSE AxisChanged(ev.id, ev.time, ev.name, val, ev.nec)
    ELSE ev

-----------------------------------------------------------------------------
(* axis_dpad_to_button *)

(* can_map of axis_dpad_to_button *)
can_map(id) ==
    /\ button_name(id, BTN_DPAD_RIGHT) = "Unknown"
    /\ button_name(id, BTN_DPAD_LEFT) = "Unknown"
    /\ button_name(id, BTN_DPAD_DOWN) = "Unknown"
    /\ button_name(id, BTN_DPAD_UP) = "Unknown"
    /\ button_code_is_none(id, "DPadRight")

(* the DPadX arm with the two directions exchanged *)
dpad_x_swapped(ev) ==
    IF ev.val = Scale
    THEN ButtonPressed(ev.id, ev.time, "DPadLeft", BTN_DPAD_LEFT)
    ELSE IF ev.val = -Scale
    THEN ButtonPressed(ev.id, ev.time, "DPadRight", BTN_DPAD_RIGHT)
    ELSE IF is_pressed(ev.id, BTN_DPAD_RIGHT)
    THEN ButtonReleased(ev.id, ev.time, "DPadRight", BTN_DPAD_RIGHT)
    ELSE ButtonReleased(ev.id, ev.time, "DPadLeft", BTN_DPAD_LEFT)

(* the DPadX arm testing DPadLeft and releasing DPadRight otherwise *)
dpad_x_default_right(ev) ==
    IF ev.val = Scale
    THEN ButtonPressed(ev.id, ev.time, "DPadRight", BTN_DPAD_RIGHT)
    ELSE IF ev.val = -Scale
    THEN ButtonPressed(ev.id, ev.time, "DPadLeft", BTN_DPAD_LEFT)
    ELSE IF is_pressed(ev.id, BTN_DPAD_LEFT)
    THEN ButtonReleased(ev.id, ev.time, "DPadLeft", BTN_DPAD_LEFT)
    ELSE ButtonReleased(ev.id, ev.time, "DPadRight", BTN_DPAD_RIGHT)

(* the DPadX arm *)
dpad_x(ev) ==
    IF ev.val = Scale
    THEN ButtonPressed(ev.id, ev.time, "DPadRight", BTN_DPAD_RIGHT)
    ELSE IF ev.val = -Scale
    THEN ButtonPressed(ev.id, ev.time, "DPadLeft", BTN_DPAD_LEFT)
    ELSE IF is_pressed(ev.id, BTN_DPAD_RIGHT)
    THEN ButtonReleased(ev.id, ev.time, "DPadRight", BTN_DPAD_RIGHT)
    ELSE ButtonReleased(ev.id, ev.time, "DPadLeft", BTN_DPAD_LEFT)

(* the DPadY arm *)
dpad_y(ev) ==
    IF ev.val = Scale
    THEN ButtonPressed(ev.id, ev.time, "DPadUp", BTN_DPAD_UP)
    ELSE IF ev.val = -Scale
    THEN ButtonPressed(ev.id, ev.time, "DPadDown", BTN_DPAD_DOWN)
    ELSE IF is_pressed(ev.id, BTN_DPAD_UP)
    THEN ButtonReleased(ev.id, ev.time, "DPadUp", BTN_DPAD_UP)
    ELSE ButtonReleased(ev.id, ev.time, "DPadDown", BTN_DPAD_DOWN)

(* the filter dropping every present event that is not an axis event *)
axis_dpad_to_button_drops_others(ev) ==
    IF ev.kind = "AxisChanged" /\ ev.name = "DPadX" /\ can_map(ev.id)
    THEN dpad_x(ev)
    ELSE IF ev.kind = "AxisChanged" /\ ev.name = "DPadY" /\ can_map(ev.id)
    THEN dpad_y(ev)
    ELSE IF is_some(ev) /\ ev.kind # "AxisChanged"
    THEN Dropped
    ELSE ev

axis_dpad_to_button(ev) ==
    IF ev.kind = "AxisChanged" /\ ev.name = "DPadX" /\ can_map(ev.id)
    THEN dpad_x(ev)
    ELSE IF ev.kind = "AxisChanged" /\ ev.name = "DPadY" /\ can_map(ev.id)
    THEN dpad_y(ev)
    ELSE ev

-----------------------------------------------------------------------------
(* Repeat *)

Repeat_new == [after |-> 500, every |-> 30]

(* the distance between the two instants, whichever is the later *)
duration_since_either_way(later, earlier) ==
    [ok |-> TRUE, dur |-> Abs(later - earlier)]

(* SystemTime::duration_since: Err when the earlier instant is the later one *)
duration_since(later, earlier) ==
    IF earlier <= later
    THEN [ok |-> TRUE, dur |-> later - earlier]
    ELSE [ok |-> FALSE, dur |-> 0]

RECURSIVE Sorted(_)
(* the elements of a finite set of integers in ascending order *)
Sorted(S) ==
    IF S = {} THEN <<>>
    ELSE LET m == CHOOSE x \in S : \A y \in S : x <= y
         IN <<m>> \o Sorted(S \ {m})

(* Gilrs::gamepads(): the connected gamepads by ascending id *)
gamepads == Sorted(Ids)

(* GamepadState::buttons(): the recorded buttons by ascending native code *)
state_buttons(id) == Sorted({nec \in BtnCodes : buttons[id][nec].known})

(* the match stamping the repeat with the clock *)
repeat_match_clock_time(id, nec) ==
    LET btn_data == buttons[id][nec]
        d == duration_since(now, btn_data.time)
    IN IF btn_data.pressed /\ ~btn_data.repeating /\ d.ok /\ d.dur >= repeat.after
       THEN ButtonRepeated(id, now, button_name(id, nec), nec)
       ELSE IF btn_data.pressed /\ btn_data.repeating /\ d.ok /\ d.dur >= repeat.every
       THEN ButtonRepeated(id, now, button_name(id, nec), nec)
       ELSE None

(* the match using `every` for the first repeat too *)
repeat_match_every_only(id, nec) ==
    LET btn_data == buttons[id][nec]
        d == duration_since(now, btn_data.time)
    IN IF btn_data.pressed /\ ~btn_data.repeating /\ d.ok /\ d.dur >= repeat.every
       THEN ButtonRepeated(id, btn_data.time + repeat.after, button_name(id, nec), nec)
       ELSE IF btn_data.pressed /\ btn_data.repeating /\ d.ok /\ d.dur >= repeat.every
       THEN ButtonRepeated(id, btn_data.time + repeat.every, button_name(id, nec), nec)
       ELSE None

(* the match stamping the following repeats with the polling instant *)
repeat_match_repeat_at_poll(id, nec) ==
    LET btn_data == buttons[id][nec]
        d == duration_since(now, btn_data.time)
    IN IF btn_data.pressed /\ ~btn_data.repeating /\ d.ok /\ d.dur >= repeat.after
       THEN ButtonRepeated(id, btn_data.time + repeat.after, button_name(id, nec), nec)
       ELSE IF btn_data.pressed /\ btn_data.repeating /\ d.ok /\ d.dur >= repeat.every
       THEN ButtonRepeated(id, now, button_name(id, nec), nec)
       ELSE None

(* one iteration of the inner loop: the event returned, or None to go on *)
repeat_match(id, nec) ==
    LET btn_data == buttons[id][nec]
        d == duration_since(now, btn_data.time)
    IN IF btn_data.pressed /\ ~btn_data.repeating /\ d.ok /\ d.dur >= repeat.after
       THEN ButtonRepeated(id, btn_data.time + repeat.after, button_name(id, nec), nec)
       ELSE IF btn_data.pressed /\ btn_data.repeating /\ d.ok /\ d.dur >= repeat.every
       THEN ButtonRepeated(id, btn_data.time + repeat.every, button_name(id, nec), nec)
       ELSE None

RECURSIVE scan_buttons(_, _, _)
scan_buttons(id, necs, i) ==
    IF i > Len(necs) THEN None
    ELSE LET r == repeat_match(id, necs[i])
         IN IF is_some(r) THEN r ELSE scan_buttons(id, necs, i + 1)

RECURSIVE scan_gamepads(_, _)
scan_gamepads(ids, i) ==
    IF i > Len(ids) THEN None
    ELSE LET r == scan_buttons(ids[i], state_buttons(ids[i]), 1)
         IN IF is_some(r) THEN r ELSE scan_gamepads(ids, i + 1)

(* Repeat scanning also when the input is present *)
Repeat_filter_always_scans(ev) ==
    IF is_some(scan_gamepads(gamepads, 1)) THEN scan_gamepads(gamepads, 1) ELSE ev

(* impl FilterFn for Repeat *)
Repeat_filter(ev) ==
    IF is_some(ev) THEN ev ELSE scan_gamepads(gamepads, 1)

-----------------------------------------------------------------------------
(* Filter::filter_ev for Option<Event>: the filter's result, and whether the
   debug assertion fails *)

(* the assertion of the Event impl used for Option<Event> too *)
filter_ev_asserting_some(self, e) ==
    [e |-> e, failed |-> is_none(e)]

filter_ev(self, e) ==
    [e |-> e, failed |-> is_some(self) /\ is_none(e)]

(* Filter::filter_ev for Event: self is present *)
filter_ev_event(self, e) ==
    [e |-> e, failed |-> is_none(e)]

-----------------------------------------------------------------------------
(* Custom filters: any Fn(Option<Event>, &Gilrs) -> Option<Event>; the ones
   modelled answer absence, Dropped, or their input *)

CustomResults(ev) == {None, Dropped, ev}

(* the UnknownSlayer of the module documentation *)
UnknownSlayer(ev) ==
    IF ev.kind \in {"ButtonPressed", "ButtonReleased", "AxisChanged"} /\ ev.name = "Unknown"
    THEN Dropped
    ELSE ev

-----------------------------------------------------------------------------
(* Gilrs::update: the consumer stores the event in the gamepad's state *)

update_buttons(ev) ==
    CASE ev.kind = "ButtonPressed" ->
           [buttons EXCEPT ![ev.id][ev.nec] =
              [pressed |-> TRUE, repeating |-> FALSE, time |-> ev.time, known |-> TRUE]]
      [] ev.kind = "ButtonReleased" ->
           [buttons EXCEPT ![ev.id][ev.nec] =
              [pressed |-> FALSE, repeating |-> FALSE, time |-> ev.time, known |-> TRUE]]
      [] ev.kind = "ButtonRepeated" ->
           [buttons EXCEPT ![ev.id][ev.nec] =
              [pressed |-> TRUE, repeating |-> TRUE, time |-> ev.time, known |-> TRUE]]
      [] OTHER -> buttons

NoHold == [since |-> -1, count |-> 0]

(* ghost: the press instant and the number of repeats applied since *)
update_hold(ev) ==
    CASE ev.kind = "ButtonPressed" ->
           [hold EXCEPT ![ev.id][ev.nec] = [since |-> ev.time, count |-> 0]]
      [] ev.kind = "ButtonReleased" ->
           [hold EXCEPT ![ev.id][ev.nec] = NoHold]
      [] ev.kind = "ButtonRepeated" ->
           [hold EXCEPT ![ev.id][ev.nec].count = @ + 1]
      [] OTHER -> hold

update_axes(ev) ==
    IF ev.kind = "AxisChanged"
    THEN [axes EXCEPT ![ev.id][ev.nec] =
            [value |-> ev.val, time |-> ev.time, known |-> TRUE]]
    ELSE axes

-----------------------------------------------------------------------------
(* Device configurations the backend may report *)

MapPlain == [nec \in BtnCodes |-> IF nec = BTN_SOUTH THEN "South" ELSE "Unknown"]
MapNative ==
    [nec \in BtnCodes |->
        CASE nec = BTN_SOUTH -> "South"
          [] nec = BTN_DPAD_UP -> "DPadUp"
          [] nec = BTN_DPAD_DOWN -> "DPadDown"
          [] nec = BTN_DPAD_LEFT -> "DPadLeft"
          [] nec = BTN_DPAD_RIGHT -> "DPadRight"
          [] OTHER -> "Unknown"]
(* a dpad button bound to a non-standard native code *)
MapExtraUp == [MapPlain EXCEPT ![BTN_EXTRA] = "DPadUp"]
MapExtraRight == [MapPlain EXCEPT ![BTN_EXTRA] = "DPadRight"]
(* a standard dpad code used by some other button *)
MapStolen == [MapPlain EXCEPT ![BTN_DPAD_LEFT] = "South", ![BTN_SOUTH] = "Unknown"]

DeadzoneOf(t) == [nec \in AxisCodes |-> IF nec = AXIS_MISSING THEN NoDeadzone ELSE t]

FreshAxes == [id \in Ids |-> [nec \in AxisCodes |-> NoAxis]]
FreshButtons == [id \in Ids |-> [nec \in BtnCodes |-> NoBtn]]

InitWith(DZ, M, J, R) ==
    /\ axes = FreshAxes
    /\ buttons = FreshButtons
    /\ deadzones \in DZ
    /\ mapping \in M
    /\ jitter \in J
    /\ repeat \in R
    /\ now = 0
    /\ inp = None
    /\ out = None
    /\ last = "none"
    /\ pc = "idle"
    /\ chain = 0
    /\ steps = 0
    /\ normalized = {}
    /\ ret = None
    /\ hold = [id \in Ids |-> [nec \in BtnCodes |-> NoHold]]

-----------------------------------------------------------------------------
(* The event loop: next_event(), the filter_ev calls, update() *)

(* in one of at most N iterations the clock advances by d and the backend
   hands over an event of E, stamped with the clock, or none *)
NextEvent(N, D, E) ==
    /\ pc = "idle"
    /\ steps < N
    /\ \E d \in D :
         /\ now + d >= 0
         /\ now' = now + d
         /\ \/ out' = None
            \/ \E e \in E : out' = [e EXCEPT !.time = now + d]
    /\ inp' = None
    /\ ret' = None
    /\ last' = "none"
    /\ pc' = "chain"
    /\ chain' = 0
    /\ UNCHANGED <<axes, buttons, deadzones, mapping, jitter, repeat, steps, normalized, hold>>

(* a filter_ev that stores the filter's result in the device state *)
Call_storing(name, r) ==
    /\ pc = "chain"
    /\ chain < MaxChain
    /\ inp' = out
    /\ last' = name
    /\ chain' = chain + 1
    /\ IF r.kind = "Panic"
       THEN pc' = "panicked" /\ out' = None /\ ret' = None
       ELSE /\ ret' = r
            /\ IF filter_ev(out, r).failed
               THEN pc' = "assert_failed" /\ out' = None
               ELSE pc' = "chain" /\ out' = filter_ev(out, r).e
    /\ axes' = IF r.kind = "Panic" THEN axes ELSE update_axes(r)
    /\ buttons' = IF r.kind = "Panic" THEN buttons ELSE update_buttons(r)
    /\ UNCHANGED <<deadzones, mapping, now, jitter, repeat, steps, normalized, hold>>

(* out.filter_ev(&filter, &gilrs), r being what filter.filter(out, gilrs) does *)
Call(name, r) ==
    /\ pc = "chain"
    /\ chain < MaxChain
    /\ inp' = out
    /\ last' = name
    /\ chain' = chain + 1
    /\ IF r.kind = "Panic"
       THEN pc' = "panicked" /\ out' = None /\ ret' = None
       ELSE /\ ret' = r
            /\ IF filter_ev(out, r).failed
               THEN pc' = "assert_failed" /\ out' = None
               ELSE pc' = "chain" /\ out' = filter_ev(out, r).e
    /\ UNCHANGED <<axes, buttons, deadzones, mapping, now, jitter, repeat, steps, normalized, hold>>

(* event.filter_ev(&filter, &gilrs) on a present event, r being what
   filter.filter(Some(event), gilrs) does *)
CallOnEvent(name, r) ==
    /\ pc = "chain"
    /\ chain < MaxChain
    /\ is_some(out)
    /\ inp' = out
    /\ last' = name
    /\ chain' = chain + 1
    /\ IF r.kind = "Panic"
       THEN pc' = "panicked" /\ out' = None /\ ret' = None
       ELSE /\ ret' = r
            /\ IF filter_ev_event(out, r).failed
               THEN pc' = "assert_failed" /\ out' = None
               ELSE pc' = "chain" /\ out' = filter_ev_event(out, r).e
    /\ UNCHANGED <<axes, buttons, deadzones, mapping, now, jitter, repeat, steps, normalized, hold>>

ApplyJitter == Call("Jitter", Jitter_filter(out))
ApplyDeadzone == Call("deadzone", deadzone(out))
ApplyDpad == Call("axis_dpad_to_button", axis_dpad_to_button(out))
ApplyRepeat == Call("Repeat", Repeat_filter(out))

(* gilrs.update(&event) for a present event; the loop iteration ends *)
Update ==
    /\ pc = "chain"
    /\ axes' = update_axes(out)
    /\ buttons' = update_buttons(out)
    /\ normalized' =
         IF out.kind = "AxisChanged"
         THEN IF last = "deadzone"
              THEN normalized \cup {<<out.id, out.nec>>}
              ELSE normalized \ {<<out.id, out.nec>>}
         ELSE normalized
    /\ hold' = update_hold(out)
    /\ inp' = None
    /\ out' = None
    /\ ret' = None
    /\ last' = "none"
    /\ pc' = "idle"
    /\ chain' = 0
    /\ steps' = steps + 1
    /\ UNCHANGED <<deadzones, mapping, now, jitter, repeat>>

-----------------------------------------------------------------------------
(* Raw events of the backend; next_event stamps them *)

AxisEvents(ids, names, vals) ==
    {AxisChanged(id, 0, a, v, axis_code(a)) : id \in ids, a \in names, v \in vals}

ButtonEvents(ids, necs) ==
    {ButtonPressed(id, 0, button_name(id, nec), nec) : id \in ids, nec \in necs}
      \cup {ButtonReleased(id, 0, button_name(id, nec), nec) : id \in ids, nec \in necs}

OtherEvents(ids) ==
    {Connected(id, 0) : id \in ids} \cup {Disconnected(id, 0) : id \in ids} \cup {Dropped}

-----------------------------------------------------------------------------
(* Jitter alone: axis events of one stick and a trigger on two gamepads *)

JitterVals == {-Scale, 0, 5, 10, 15, 20, 500, Scale}
JitterEvents ==
    AxisEvents(Ids, {"LeftStickX", "LeftZ"}, JitterVals)
      \cup ButtonEvents({0}, {BTN_SOUTH}) \cup OtherEvents({0})

InitJitter ==
    InitWith({[id \in Ids |-> DeadzoneOf(200)]}, {[id \in Ids |-> MapPlain]},
             {Jitter_new, [threshold |-> 20]}, {Repeat_new})
NextJitter == NextEvent(JitterSteps, {0}, JitterEvents) \/ ApplyJitter \/ Update
SpecJitter == InitJitter /\ [][NextJitter]_vars

(* C2: Jitter turns an AxisChanged event on an axis with a recorded value
   into Dropped when |new - old| < threshold and returns it unchanged when
   |new - old| >= threshold; absence, every other event, and an axis event
   on an axis with no recorded value are returned unchanged. *)
C2_JitterContract ==
    (pc = "chain" /\ last = "Jitter") =>
        IF inp.kind = "AxisChanged" /\ axes[inp.id][inp.nec].known
        THEN /\ Abs(inp.val - axes[inp.id][inp.nec].value) < jitter.threshold
                  => out.kind = "Dropped"
             /\ Abs(inp.val - axes[inp.id][inp.nec].value) >= jitter.threshold
                  => out = inp
        ELSE out = inp

(* a change exactly equal to the threshold went through Jitter and passed *)
C2_Witness ==
    /\ pc = "chain" /\ last = "Jitter"
    /\ inp.kind = "AxisChanged" /\ axes[inp.id][inp.nec].known
    /\ Abs(inp.val - axes[inp.id][inp.nec].value) = jitter.threshold
    /\ out = inp

-----------------------------------------------------------------------------
(* deadzone alone: both sticks and a trigger of gamepad 0, an axis the device
   does not know, and replays of the value the consumer stored (raw values
   stay within [-1.0, 1.0]) *)

DeadzoneVals == {-Scale, -300, 0, 200, 400, 500, Scale}
Sticks == {"LeftStickX", "LeftStickY", "RightStickX", "RightStickY"}
DeadzoneEvents ==
    AxisEvents({0}, Sticks \cup {"LeftZ"}, DeadzoneVals)
      \cup {AxisChanged(0, 0, a, state_value(0, axis_code(a)), axis_code(a)) :
              a \in {b \in Sticks \cup {"LeftZ"} :
                        Abs(state_value(0, axis_code(b))) <= Scale}}
      \cup AxisEvents({1}, {"LeftStickX", "Unknown"}, {500})
      \cup ButtonEvents({0}, {BTN_SOUTH}) \cup OtherEvents({0})

InitDeadzone ==
    InitWith({[id \in Ids |-> DeadzoneOf(t)] : t \in {0, 200}},
             {[id \in Ids |-> MapPlain]}, {Jitter_new}, {Repeat_new})
NextDeadzone == NextEvent(DeadzoneSteps, {0}, DeadzoneEvents) \/ ApplyDeadzone \/ Update
SpecDeadzone == InitDeadzone /\ [][NextDeadzone]_vars

(* the value of the other axis of the same stick, 0 for an unpaired axis *)
PairedValue(e) ==
    CASE e.name = "LeftStickX" -> state_value(e.id, AXIS_LSTICKY)
      [] e.name = "LeftStickY" -> state_value(e.id, AXIS_LSTICKX)
      [] e.name = "RightStickX" -> state_value(e.id, AXIS_RSTICKY)
      [] e.name = "RightStickY" -> state_value(e.id, AXIS_RSTICKX)
      [] OTHER -> 0

(* deadzone returned from an AxisChanged event *)
DeadzoneRan ==
    pc = "chain" /\ last = "deadzone" /\ inp.kind = "AxisChanged"

(* the value deadzone computed: the one it emitted, or, when it dropped the
   event, the stored value it found equal to the computed one *)
Computed ==
    IF out.kind = "AxisChanged" THEN out.val ELSE state_value(inp.id, inp.nec)

(* C3: with x the raw value, y the paired value, t the threshold and
   m = sqrt(x^2 + y^2): the computed value is exactly 0 when m <= t, and
   otherwise is x * ((m - t) / (1 - t)) / m up to the rounding of the three
   operations (2/Scale), with the sign of x; x = 0.5, y = 0, t = 0.2 gives
   0.375. *)
C3_DeadzoneRemap ==
    DeadzoneRan =>
        LET x == inp.val
            y == PairedValue(inp)
            t == deadzones[inp.id][inp.nec]
            m == FSqrt(x * x + y * y)
            c == Computed
        IN /\ (x * x + y * y <= t * t) => c = 0
           /\ m > t => Abs(c * (Scale - t) * m - x * (m - t) * Scale)
                          <= 2 * (Scale - t) * m
           /\ c * x >= 0
           /\ (2 * x = Scale /\ y = 0 /\ 5 * t = Scale) => 8 * c = 3 * Scale

(* a paired stick event outside the dead zone was remapped and emitted *)
C3_Witness ==
    /\ DeadzoneRan
    /\ inp.name = "LeftStickX"
    /\ PairedValue(inp) # 0
    /\ FSqrt(inp.val * inp.val + PairedValue(inp) * PairedValue(inp))
          > deadzones[inp.id][inp.nec]
    /\ deadzones[inp.id][inp.nec] > 0
    /\ out.kind = "AxisChanged" /\ out.val # 0 /\ out.val # inp.val

(* an event carrying the value deadzone emitted and the consumer stored *)
Renormalizing ==
    /\ DeadzoneRan
    /\ <<inp.id, inp.nec>> \in normalized
    /\ inp.val = state_value(inp.id, inp.nec)

(* C4 as stated: deadzone applied to an event carrying the already-normalized
   stored value v' yields Dropped. *)
C4_Original == Renormalizing => out.kind = "Dropped"

(* C4 amended: deadzone applied to an event carrying the already-normalized
   stored value v' yields Dropped when remapping leaves v' unchanged (v' = 0,
   threshold 0, or magnitude exactly 1); otherwise the value is remapped a
   second time, and unless the result is v' again it is emitted as
   AxisChanged with that different value (0.375 at threshold 0.2 and paired
   value 0 becomes 0.21875 up to rounding). *)
C4_DeadzoneTwice ==
    Renormalizing =>
        LET v == inp.val
            y == PairedValue(inp)
            t == deadzones[inp.id][inp.nec]
            m == FSqrt(v * v + y * y)
        IN /\ (v = 0 \/ t = 0 \/ m = Scale) => out.kind = "Dropped"
           /\ out.kind # "Dropped" =>
                 /\ out.kind = "AxisChanged" /\ out.val # v
                 /\ out = [inp EXCEPT !.val = out.val]
           /\ (8 * v = 3 * Scale /\ y = 0 /\ 5 * t = Scale) =>
                 /\ out.kind = "AxisChanged"
                 /\ Abs(32 * out.val - 7 * Scale) <= 32 * 2

(* the normalized value 1.0 at a positive threshold was dropped the second time *)
C4_Witness ==
    /\ Renormalizing
    /\ inp.val = Scale /\ PairedValue(inp) = 0 /\ deadzones[inp.id][inp.nec] > 0
    /\ out.kind = "Dropped"

-----------------------------------------------------------------------------
(* axis_dpad_to_button alone: dpad axes on gamepads with and without dpad
   buttons *)

DpadEvents ==
    AxisEvents({0}, {"DPadX", "DPadY"}, {-Scale, 0, 500, Scale})
      \cup AxisEvents({1}, {"DPadX", "DPadY"}, {0, Scale})
      \cup AxisEvents({0}, {"LeftStickX"}, {Scale})
      \cup {ButtonPressed(0, 0, button_name(0, BTN_SOUTH), BTN_SOUTH),
             ButtonPressed(1, 0, button_name(1, BTN_DPAD_RIGHT), BTN_DPAD_RIGHT),
             Connected(0, 0), Dropped}

InitDpad ==
    InitWith({[id \in Ids |-> DeadzoneOf(200)]},
             {[id \in Ids |-> IF id = 0 THEN m0 ELSE m1] :
                 m0 \in {MapPlain, MapNative, MapExtraUp, MapExtraRight, MapStolen},
                 m1 \in {MapPlain, MapNative}},
             {Jitter_new}, {Repeat_new})
NextDpad == NextEvent(DpadSteps, {0}, DpadEvents) \/ ApplyDpad \/ Update
SpecDpad == InitDpad /\ [][NextDpad]_vars

(* axis_dpad_to_button returned from an AxisChanged event on the named axis *)
DpadRan(axis) ==
    /\ pc = "chain" /\ last = "axis_dpad_to_button"
    /\ inp.kind = "AxisChanged" /\ inp.name = axis

(* C5: where can_map holds, DPadX at exactly 1.0 yields ButtonPressed of
   DPadRight and at exactly -1.0 of DPadLeft, DPadY at 1.0 of DPadUp and at
   -1.0 of DPadDown, with the axis event's id and time and the button's
   standard native code, whatever the state records as pressed. *)
C5_DpadPress ==
    /\ (DpadRan("DPadX") /\ can_map(inp.id) /\ inp.val = Scale)
          => out = ButtonPressed(inp.id, inp.time, "DPadRight", BTN_DPAD_RIGHT)
    /\ (DpadRan("DPadX") /\ can_map(inp.id) /\ inp.val = -Scale)
          => out = ButtonPressed(inp.id, inp.time, "DPadLeft", BTN_DPAD_LEFT)
    /\ (DpadRan("DPadY") /\ can_map(inp.id) /\ inp.val = Scale)
          => out = ButtonPressed(inp.id, inp.time, "DPadUp", BTN_DPAD_UP)
    /\ (DpadRan("DPadY") /\ can_map(inp.id) /\ inp.val = -Scale)
          => out = ButtonPressed(inp.id, inp.time, "DPadDown", BTN_DPAD_DOWN)

(* DPadX went to -1.0 while DPadRight was still recorded as pressed *)
C5_Witness ==
    /\ DpadRan("DPadX") /\ can_map(inp.id) /\ inp.val = -Scale
    /\ is_pressed(inp.id, BTN_DPAD_RIGHT)
    /\ out.kind = "ButtonPressed" /\ out.name = "DPadLeft"

(* a dpad axis event with a value that is neither 1.0 nor -1.0, where can_map holds *)
DpadReleaseCase(axis) ==
    DpadRan(axis) /\ can_map(inp.id) /\ inp.val # Scale /\ inp.val # -Scale

(* C6 as stated: the release is for whichever button of the axis is recorded
   as pressed, and for DPadRight (DPadUp on the vertical axis) when neither
   is. *)
C6_Original ==
    /\ DpadReleaseCase("DPadX") =>
          /\ (is_pressed(inp.id, BTN_DPAD_LEFT) /\ ~is_pressed(inp.id, BTN_DPAD_RIGHT))
                => out = ButtonReleased(inp.id, inp.time, "DPadLeft", BTN_DPAD_LEFT)
          /\ ~is_pressed(inp.id, BTN_DPAD_LEFT)
                => out = ButtonReleased(inp.id, inp.time, "DPadRight", BTN_DPAD_RIGHT)
    /\ DpadReleaseCase("DPadY") =>
          /\ (is_pressed(inp.id, BTN_DPAD_DOWN) /\ ~is_pressed(inp.id, BTN_DPAD_UP))
                => out = ButtonReleased(inp.id, inp.time, "DPadDown", BTN_DPAD_DOWN)
          /\ ~is_pressed(inp.id, BTN_DPAD_DOWN)
                => out = ButtonReleased(inp.id, inp.time, "DPadUp", BTN_DPAD_UP)

(* C6 amended: a DPadX value that is neither 1.0 nor -1.0 yields
   ButtonReleased(DPadRight) when the state records DPadRight as pressed and
   ButtonReleased(DPadLeft) otherwise, so also when neither is recorded as
   pressed; DPadY yields ButtonReleased(DPadUp) when DPadUp is recorded as
   pressed and ButtonReleased(DPadDown) otherwise. *)
C6_DpadRelease ==
    /\ DpadReleaseCase("DPadX") =>
          out = IF is_pressed(inp.id, BTN_DPAD_RIGHT)
                THEN ButtonReleased(inp.id, inp.time, "DPadRight", BTN_DPAD_RIGHT)
                ELSE ButtonReleased(inp.id, inp.time, "DPadLeft", BTN_DPAD_LEFT)
    /\ DpadReleaseCase("DPadY") =>
          out = IF is_pressed(inp.id, BTN_DPAD_UP)
                THEN ButtonReleased(inp.id, inp.time, "DPadUp", BTN_DPAD_UP)
                ELSE ButtonReleased(inp.id, inp.time, "DPadDown", BTN_DPAD_DOWN)

(* DPadX at 0.5 with neither DPadLeft nor DPadRight recorded as pressed *)
C6_Witness ==
    /\ DpadReleaseCase("DPadX") /\ 2 * inp.val = Scale
    /\ ~is_pressed(inp.id, BTN_DPAD_LEFT) /\ ~is_pressed(inp.id, BTN_DPAD_RIGHT)
    /\ out.kind = "ButtonReleased" /\ out.name = "DPadLeft"

(* the device has a native code bound to one of the four dpad buttons *)
HasNativeDpad(id) ==
    \E nec \in BtnCodes : mapping[id][nec] \in {"DPadUp", "DPadDown", "DPadLeft", "DPadRight"}

(* C7: on a device with a native code bound to any dpad button every
   AxisChanged event on DPadX or DPadY passes through axis_dpad_to_button
   unchanged; on every device absence and every other event pass through
   unchanged. *)
C7_DpadPassThrough ==
    (pc = "chain" /\ last = "axis_dpad_to_button") =>
        IF inp.kind = "AxisChanged" /\ inp.name \in {"DPadX", "DPadY"}
        THEN HasNativeDpad(inp.id) => out = inp
        ELSE out = inp

-----------------------------------------------------------------------------
(* Repeat alone: buttons of two gamepads held while the clock moves, also
   backwards *)

RepeatDeltas == {-100, 0, 30, 500, 600}
RepeatEvents ==
    ButtonEvents({0}, {BTN_SOUTH, BTN_EXTRA}) \cup ButtonEvents({1}, {BTN_SOUTH})
      \cup AxisEvents({0}, {"LeftStickX"}, {Scale}) \cup OtherEvents({0})

InitRepeat ==
    InitWith({[id \in Ids |-> DeadzoneOf(200)]}, {[id \in Ids |-> MapPlain]},
             {Jitter_new}, {Repeat_new})
NextRepeat == NextEvent(RepeatSteps, RepeatDeltas, RepeatEvents) \/ ApplyRepeat \/ Update
SpecRepeat == InitRepeat /\ [][NextRepeat]_vars

(* Repeat returned from a call with absent input *)
RepeatRanOnNone == pc = "chain" /\ last = "Repeat" /\ is_none(inp)

(* the button is pressed and held for at least `after`, or for at least
   `every` when it already repeats *)
Qualifies(id, nec) ==
    LET b == buttons[id][nec]
    IN /\ b.known /\ b.pressed
       /\ b.time <= now
       /\ now - b.time >= IF b.repeating THEN repeat.every ELSE repeat.after

(* device-then-button enumeration order *)
Earlier(id1, nec1, id2, nec2) == id1 < id2 \/ (id1 = id2 /\ nec1 < nec2)

(* C8: on absent input with some button qualifying, Repeat yields one
   ButtonRepeated event, for the first qualifying button in device-then-button
   order, with that device's id, the button's name and native code, and the
   button's stored timestamp plus `after` (not repeating) or plus `every`
   (repeating), not the clock's value. *)
C8_RepeatSynthesis ==
    (RepeatRanOnNone /\ \E id \in Ids, nec \in BtnCodes : Qualifies(id, nec)) =>
        \E id \in Ids, nec \in BtnCodes :
            /\ Qualifies(id, nec)
            /\ \A id2 \in Ids, nec2 \in BtnCodes :
                  Qualifies(id2, nec2) => ~Earlier(id2, nec2, id, nec)
            /\ out = ButtonRepeated(
                        id,
                        buttons[id][nec].time
                          + (IF buttons[id][nec].repeating THEN repeat.every ELSE repeat.after),
                        mapping[id][nec],
                        nec)

(* two buttons qualified, one later than `after` ago, and the repeat was for one of them *)
C8_Witness ==
    /\ RepeatRanOnNone
    /\ \E id1 \in Ids, id2 \in Ids, nec1 \in BtnCodes, nec2 \in BtnCodes :
          /\ Earlier(id1, nec1, id2, nec2)
          /\ Qualifies(id1, nec1) /\ Qualifies(id2, nec2)
    /\ out.kind = "ButtonRepeated"
    /\ out.time < now

(* C9: on absent input the output of Repeat is present exactly when some
   button of some gamepad is pressed and held for at least `after` (not
   repeating) or `every` (repeating); otherwise it is absence. *)
C9_RepeatPresence ==
    RepeatRanOnNone =>
        (is_some(out) <=> \E id \in Ids, nec \in BtnCodes : Qualifies(id, nec))

(* a pressed, not repeating button held for at least `every` but less than
   `after`, and Repeat returned absence *)
C9_Witness ==
    /\ RepeatRanOnNone
    /\ is_none(out)
    /\ \E id \in Ids, nec \in BtnCodes :
          /\ buttons[id][nec].known /\ buttons[id][nec].pressed
          /\ ~buttons[id][nec].repeating
          /\ now - buttons[id][nec].time >= repeat.every
          /\ now - buttons[id][nec].time < repeat.after

(* C10: a present input, Dropped included, is returned by Repeat unchanged,
   also while a held button qualifies for a repeat. *)
C10_RepeatPassThrough ==
    (pc = "chain" /\ last = "Repeat" /\ is_some(inp)) => out = inp

(* Repeat got a present event while a button qualified *)
C10_Witness ==
    /\ pc = "chain" /\ last = "Repeat" /\ is_some(inp)
    /\ \E id \in Ids, nec \in BtnCodes : Qualifies(id, nec)
    /\ out = inp

-----------------------------------------------------------------------------
(* The whole loop: any chain of the four filters, in any order *)

ChainDeltas == {0, 500}
ChainEvents ==
    AxisEvents({0}, {"LeftStickX"}, {5, 500})
      \cup AxisEvents({0}, {"LeftStickY", "Unknown"}, {500})
      \cup AxisEvents({0}, {"DPadX"}, {0, Scale})
      \cup AxisEvents({1}, {"DPadX"}, {Scale})
      \cup ButtonEvents({0}, {BTN_SOUTH})
      \cup {ButtonPressed(1, 0, button_name(1, BTN_SOUTH), BTN_SOUTH), Connected(0, 0),
            Disconnected(0, 0), Dropped}

Init ==
    InitWith({[id \in Ids |-> DeadzoneOf(200)]},
             {[id \in Ids |-> IF id = 0 THEN MapPlain ELSE MapNative]},
             {Jitter_new}, {Repeat_new})
Next ==
    \/ NextEvent(ChainSteps, ChainDeltas, ChainEvents)
    \/ ApplyJitter
    \/ ApplyDeadzone
    \/ ApplyDpad
    \/ ApplyRepeat
    \/ Update
Spec == Init /\ [][Next]_vars

(* C1: each of Jitter, deadzone (on an axis code the device recognises),
   axis_dpad_to_button and Repeat returns a present event, possibly Dropped,
   for a present input, in every device state; so the debug assertion of
   filter_ev never fails and a chain keeps a present event present. *)
C1_NonCollapsing ==
    (last # "none" /\ is_some(inp) /\ pc # "panicked") =>
        (pc = "chain" /\ is_some(out))

(* a chain of two filters turned a present axis event into Dropped *)
C1_Witness ==
    /\ pc = "chain" /\ chain = MaxChain
    /\ is_some(inp) /\ inp.kind # "Dropped"
    /\ out.kind = "Dropped"

-----------------------------------------------------------------------------
(* Custom filters next to built-in ones, applied to Option<Event> and to Event *)

CustomSteps == 2

CustomDeltas == {0, 500}

CustomEvents ==
    AxisEvents({0}, {"LeftStickX", "Unknown"}, {500})
        \cup ButtonEvents({0}, {BTN_SOUTH})
        \cup {Connected(0, 0), Dropped}

ApplyCustom == \E r \in CustomResults(out) : Call("custom", r)

ApplyCustomOnEvent == \E r \in CustomResults(out) : CallOnEvent("custom", r)

ApplyUnknownSlayer == CallOnEvent("UnknownSlayer", UnknownSlayer(out))

ApplyRepeatOnEvent == CallOnEvent("Repeat", Repeat_filter(out))

ApplyJitterOnEvent == CallOnEvent("Jitter", Jitter_filter(out))

NextCustom ==
    \/ NextEvent(CustomSteps, CustomDeltas, CustomEvents)
    \/ ApplyCustom
    \/ ApplyCustomOnEvent
    \/ ApplyUnknownSlayer
    \/ ApplyRepeat
    \/ ApplyRepeatOnEvent
    \/ ApplyJitter
    \/ ApplyJitterOnEvent
    \/ Update

SpecCustom == Init /\ [][NextCustom]_vars

(* C11: filter_ev, on Option<Event> and on Event, fails its assertion exactly
   when its input is present and the filter, built-in or custom, returned
   absence; absence returned for an absent input fails nothing; whenever it
   does not fail, filter_ev returns exactly what the filter returned. *)
C11_ChainAssertion ==
    (last # "none" /\ pc # "panicked") =>
        /\ (pc = "assert_failed") <=> (is_some(inp) /\ is_none(ret))
        /\ (pc # "assert_failed") => (pc = "chain" /\ out = ret)

C11_Witness ==
    pc = "assert_failed" /\ last = "custom" /\ is_some(inp) /\ is_none(ret)

-----------------------------------------------------------------------------
(* C12: applying a built-in filter, or a chain of them, leaves the device
   state (axis values and timestamps, button flags and timestamps, deadzones,
   code mappings) as it was; the state changes only in the consumer's update
   step, after the chain has completed. *)
C12_FiltersReadOnly ==
    [][(<<axes, buttons, deadzones, mapping>>' # <<axes, buttons, deadzones, mapping>>)
          => (pc = "chain" /\ pc' = "idle")]_vars

C12_Witness ==
    /\ pc = "chain"
    /\ chain = 2
    /\ steps >= 1
    /\ last = "Jitter"
    /\ inp.kind = "AxisChanged"
    /\ out = inp
    /\ axes[out.id][out.nec].known
    /\ state_value(out.id, out.nec) # out.val

-----------------------------------------------------------------------------
(* Held buttons: buttons are pressed and never released, the loop polls Repeat
   at arbitrary instants and the consumer applies what the chain returns *)

HoldSteps == 4

HoldDeltas == {0, 30, 40, 500}

HoldButtons == {<<0, BTN_SOUTH>>, <<0, BTN_EXTRA>>, <<1, BTN_SOUTH>>}

(* presses of the buttons that are not held yet *)
HoldEvents ==
    {ButtonPressed(b[1], 0, button_name(b[1], b[2]), b[2]) :
        b \in {c \in HoldButtons : ~buttons[c[1]][c[2]].pressed}}

InitHold ==
    InitWith({[id \in Ids |-> DeadzoneOf(200)]}, {[id \in Ids |-> MapPlain]},
             {Jitter_new}, {Repeat_new, [after |-> 60, every |-> 40]})

NextHold == NextEvent(HoldSteps, HoldDeltas, HoldEvents) \/ ApplyRepeat \/ Update

SpecHold == InitHold /\ [][NextHold]_vars

(* C13: with the consumer applying every ButtonRepeated, the k-th
   ButtonRepeated synthesized for a button pressed at p and held since has the
   timestamp p + after + (k - 1) * every, whenever the polls happen. *)
C13_RepeatCadence ==
    (last = "Repeat" /\ is_none(inp) /\ out.kind = "ButtonRepeated") =>
        LET h == hold[out.id][out.nec]
            k == h.count + 1
        IN /\ h.since >= 0
           /\ out.time = h.since + repeat.after + (k - 1) * repeat.every

C13_Witness ==
    /\ last = "Repeat"
    /\ is_none(inp)
    /\ out.kind = "ButtonRepeated"
    /\ hold[out.id][out.nec].count = 2
    /\ now > out.time

-----------------------------------------------------------------------------
(* Held buttons polled for ever.  Instants are kept relative to the clock:
   Rebase moves the epoch to the current instant, and an instant older than
   Horizon (which is at least after and every, so that the button qualifies
   either way) is kept as Horizon ago.  The ghost hold is not kept. *)

PollSteps == 1

Horizon == 90

PollDeltas == {0, 30}

PollButtons == {<<0, BTN_SOUTH>>, <<1, BTN_SOUTH>>}

PollEvents ==
    {ButtonPressed(b[1], 0, button_name(b[1], b[2]), b[2]) :
        b \in {c \in PollButtons : ~buttons[c[1]][c[2]].pressed}}

Older(t) == IF t - now < 0 - Horizon THEN 0 - Horizon ELSE t - now

Rebase ==
    /\ pc = "idle"
    /\ steps = PollSteps
    /\ steps' = 0
    /\ now' = 0
    /\ buttons' = [id \in Ids |-> [nec \in BtnCodes |->
                     IF buttons[id][nec].known
                     THEN [buttons[id][nec] EXCEPT !.time = Older(@)]
                     ELSE buttons[id][nec]]]
    /\ axes' = [id \in Ids |-> [nec \in AxisCodes |->
                     IF axes[id][nec].known
                     THEN [axes[id][nec] EXCEPT !.time = Older(@)]
                     ELSE axes[id][nec]]]
    /\ hold' = [id \in Ids |-> [nec \in BtnCodes |-> NoHold]]
    /\ UNCHANGED <<deadzones, mapping, jitter, repeat, inp, out, last, ret, pc, chain,
                   normalized>>

InitPoll ==
    InitWith({[id \in Ids |-> DeadzoneOf(200)]}, {[id \in Ids |-> MapPlain]},
             {Jitter_new}, {[after |-> 60, every |-> 30]})

(* an iteration of the loop before which the clock has advanced *)
Advance == NextEvent(PollSteps, PollDeltas \ {0}, PollEvents)

NextPoll ==
    \/ NextEvent(PollSteps, PollDeltas, PollEvents)
    \/ ApplyRepeat
    \/ Update
    \/ Rebase

(* the loop keeps polling Repeat, the clock keeps advancing and the consumer
   applies what the chain returns *)
SpecPoll ==
    /\ InitPoll
    /\ [][NextPoll]_vars
    /\ SF_vars(Advance)
    /\ SF_vars(ApplyRepeat)
    /\ WF_vars(Update)
    /\ WF_vars(Rebase)

Held(b) == buttons[b[1]][b[2]].pressed

Served(b) ==
    /\ last = "Repeat"
    /\ is_none(inp)
    /\ out.kind = "ButtonRepeated"
    /\ out.id = b[1]
    /\ out.nec = b[2]

(* C14: polled for ever with absent input, the clock advancing and the
   consumer applying each synthesized event, every button that stays pressed
   is served a ButtonRepeated again and again, whatever other buttons are
   held: the scan does not starve a button enumerated later. *)
C14_RepeatLiveness == \A b \in PollButtons : Held(b) ~> Served(b)

-----------------------------------------------------------------------------
(* C15: where can_map holds and no dpad button starts pressed, with the
   consumer applying each synthesized press and release, once the most recent
   DPadX value is neither 1.0 nor -1.0 neither DPadLeft nor DPadRight is
   recorded as pressed, also after the axis went from 1.0 to -1.0 and then to
   0.0; likewise DPadY with DPadUp and DPadDown. *)
C15_NoStuckDpad ==
    [][/\ (DpadReleaseCase("DPadX") /\ pc' = "idle")
             => /\ ~buttons'[inp.id][BTN_DPAD_LEFT].pressed
                /\ ~buttons'[inp.id][BTN_DPAD_RIGHT].pressed
       /\ (DpadReleaseCase("DPadY") /\ pc' = "idle")
             => /\ ~buttons'[inp.id][BTN_DPAD_UP].pressed
                /\ ~buttons'[inp.id][BTN_DPAD_DOWN].pressed]_vars

-----------------------------------------------------------------------------
(* C16: deadzone emits Dropped exactly when the remapped value equals the
   value stored for the event's native axis code, and otherwise the AxisChanged
   event with the remapped value and the id, timestamp, axis and native code of
   the input; it never emits an AxisChanged whose value equals the stored one,
   and an event inside the dead zone while the stored value is 0 is Dropped. *)
C16_DeadzoneNoChange ==
    DeadzoneRan =>
        LET t == deadzones[inp.id][inp.nec]
            c == deadzone_val(inp, t)
            stored == state_value(inp.id, inp.nec)
            x == inp.val
            y == PairedValue(inp)
        IN /\ (out.kind = "Dropped") <=> (c = stored)
           /\ (c # stored) => out = AxisChanged(inp.id, inp.time, inp.name, c, inp.nec)
           /\ (out.kind = "AxisChanged") => (out.val # stored)
           /\ (x * x + y * y <= t * t /\ stored = 0) => out.kind = "Dropped"

(* a raw value outside the dead zone whose remapped value is the non-zero
   value already stored *)
C16_Witness ==
    /\ DeadzoneRan
    /\ deadzones[inp.id][inp.nec] > 0
    /\ state_value(inp.id, inp.nec) # 0
    /\ inp.val # state_value(inp.id, inp.nec)
    /\ out.kind = "Dropped"

-----------------------------------------------------------------------------
(* the stored timestamp of the button is later than the clock *)
AheadOfClock(id, nec) == buttons[id][nec].known /\ buttons[id][nec].time > now

(* C17: a button whose stored timestamp is later than the clock never
   qualifies for a repeat, pressed and repeating or not; the scan goes on past
   it without error, and when no other button qualifies the output is
   absence. *)
C17_RepeatBackwardClock ==
    (last = "Repeat" /\ is_none(inp)) =>
        LET Others == {b \in Ids \X BtnCodes :
                          ~AheadOfClock(b[1], b[2]) /\ Qualifies(b[1], b[2])}
        IN /\ pc = "chain"
           /\ \A id \in Ids, nec \in BtnCodes :
                 AheadOfClock(id, nec) => ~(is_some(out) /\ out.id = id /\ out.nec = nec)
           /\ (Others # {}) =>
                 /\ out.kind = "ButtonRepeated"
                 /\ <<out.id, out.nec>> \in Others
           /\ (Others = {}) => is_none(out)

(* a pressed and repeating button stamped later than the clock by more than
   `every`, and Repeat returned absence *)
C17_Witness ==
    /\ RepeatRanOnNone
    /\ is_none(out)
    /\ \E id \in Ids, nec \in BtnCodes :
          /\ AheadOfClock(id, nec)
          /\ buttons[id][nec].pressed
          /\ buttons[id][nec].repeating
          /\ buttons[id][nec].time - now >= repeat.every

-----------------------------------------------------------------------------
(* C18: deadzone applied to an AxisChanged event whose native axis code has no
   deadzone entry on the device fails fatally and yields no event; events of
   every other kind, and absence, never fail this way. *)
C18_DeadzoneUnknownAxis ==
    /\ (last = "deadzone") =>
          /\ (pc = "panicked") <=>
                (inp.kind = "AxisChanged" /\ gp_deadzone(inp.id, inp.nec) = NoDeadzone)
          /\ (pc = "panicked") => (is_none(out) /\ is_none(ret))
    /\ (pc = "panicked") => (last = "deadzone")

C18_Witness ==
    /\ pc = "panicked"
    /\ last = "deadzone"
    /\ inp.kind = "AxisChanged"
    /\ inp.nec = AXIS_MISSING

-----------------------------------------------------------------------------
(* Jitter alone on one axis drifting in steps smaller than the threshold *)

DriftSteps == 4

DriftVals == {0, 5, 10, 15, 20, 25}

DriftEvents == AxisEvents({0}, {"LeftStickX"}, DriftVals)

NextDrift == NextEvent(DriftSteps, {1}, DriftEvents) \/ ApplyJitter \/ Update

SpecDrift == InitJitter /\ [][NextDrift]_vars

(* C19: with the consumer storing the value of every AxisChanged event that
   passes Jitter and leaving the state alone on Dropped, after each event the
   stored value of the axis differs from the raw value of that event by less
   than the threshold, so a drift in steps smaller than the threshold is not
   suppressed for ever. *)
C19_JitterBoundsDrift ==
    [][(/\ pc = "chain" /\ chain = 1 /\ last = "Jitter"
        /\ inp.kind = "AxisChanged"
        /\ pc' = "idle")
          => /\ axes'[inp.id][inp.nec].known
             /\ Abs(axes'[inp.id][inp.nec].value - inp.val) < jitter.threshold]_vars

(* the event before this one was dropped, and the raw value, now away from
   the stored one by the threshold, passes *)
C19_Witness ==
    /\ pc = "chain" /\ chain = 1 /\ last = "Jitter"
    /\ steps >= 2
    /\ inp.kind = "AxisChanged"
    /\ axes[inp.id][inp.nec].known
    /\ now - axes[inp.id][inp.nec].time >= 2
    /\ Abs(inp.val - axes[inp.id][inp.nec].value) = jitter.threshold
    /\ out = inp

-----------------------------------------------------------------------------
(* C20: Jitter, deadzone and axis_dpad_to_button return their input unchanged
   when it is absence and when it is a present event other than AxisChanged
   (ButtonPressed, ButtonReleased, ButtonRepeated, Dropped, Connected,
   Disconnected), so none of the three makes a present event out of absence,
   and Dropped stays Dropped along any chain of the built-in filters. *)
C20_OnlyAxisRewritten ==
    /\ (last \in {"Jitter", "deadzone", "axis_dpad_to_button"} /\ inp.kind # "AxisChanged")
          => (pc = "chain" /\ out = inp)
    /\ (last # "none" /\ inp.kind = "Dropped")
          => (pc = "chain" /\ out = inp)

(* a held button's ButtonRepeated, synthesized by Repeat, went through one of
   the three filters *)
C20_Witness ==
    /\ pc = "chain"
    /\ chain = 2
    /\ last \in {"Jitter", "deadzone", "axis_dpad_to_button"}
    /\ inp.kind = "ButtonRepeated"
    /\ out = inp

====
